---- MODULE Spec2Model ----
(***************************************************************************)
(* Model of the Pokemon microservices gateway (NewRenTL/poc-10-lab1):      *)
(*   - the search service's GET /poke/search fan-out and merge             *)
(*     (services/search-api.js, stored as src/services/images-api.js       *)
(*     lines 440-614),                                                     *)
(*   - the gateway's reverse proxy createProxy and its GET /status health  *)
(*     aggregation (index.js, stored as src/unnamed/part_001).             *)
(* One client issues one request at a time; the handlers themselves run    *)
(* their sub-calls concurrently, as the event loop lets them.              *)
(***************************************************************************)
EXTENDS Integers, Sequences, FiniteSets, TLC

VARIABLES
    sPc,      \* search handler: "idle", "launch", "await", "done"
    sReq,     \* the request the search service received
    sName,    \* req.query.pokemon_name
    sCalls,   \* the three promises of the promises array
    sOrder,   \* backends in the order their promises settled
    sResp,    \* the search service's response
    gPc,      \* gateway proxy handler: "idle", "proxying", "done"
    gReq,     \* the request the gateway received
    gOut,     \* the request the gateway sent to the backend
    gResp,    \* the gateway's response
    hPc,      \* /status handler: "idle", "launch", "await", "done"
    hCalls,   \* the health checks of the healthChecks array
    hMicro,   \* status.microservices
    hResp,    \* the /status response
    hist,     \* the first completed search or status check, kept for comparison
    gAns,     \* what came back from the backend the gateway called
    hIssued,  \* how many /health calls the status check has sent to each service
    env,      \* process.env of the gateway and of the search service
    registry, \* the gateway's MICROSERVICES
    sUrls,    \* the search service's POKE_API_URL, STATS_API_URL, IMAGES_API_URL
    phase,    \* "starting" until the modules are loaded, then "serving"
    iPc,      \* images service handler: "idle", "done"
    iReq,     \* the request the images service received
    iStore,   \* pokemonImages
    iResp,    \* the images service's response
    cache,    \* poke service: the cache Map, key -> [data, timestamp]
    now,      \* Date.now() of the poke service, in ms
    pk,       \* poke service: the GET /api/pokemon/:identifier requests in progress
    statsDB,  \* stats service: pokemonStatsDB
    tGet,     \* stats service: a GET request (stats or analysis) and its response
    tLoad,    \* stats service: the POST /api/stats/load-csv handler
    vPc,      \* validateImageUrls: "idle", "checking", "returned", "thrown"; "answered"
              \* once the images service has sent the response built from its result
    vImages,  \* validateImageUrls: the entries of its argument, in order
    vOut,     \* validateImageUrls: validatedImages
    vHeads    \* validateImageUrls: what each HEAD request it sent met (kind, latency)

searchVars == <<sPc, sReq, sName, sCalls, sOrder, sResp>>
gatewayVars == <<gPc, gReq, gOut, gResp, gAns>>
statusVars == <<hPc, hCalls, hMicro, hResp, hIssued>>
configVars == <<env, registry, sUrls, phase>>
imagesVars == <<iPc, iReq, iStore, iResp>>
pokeVars == <<cache, now, pk>>
statsSvcVars == <<statsDB, tGet, tLoad>>
validateVars == <<vPc, vImages, vOut, vHeads>>
backendVars == <<pokeVars, statsSvcVars, validateVars>>
vars == <<sPc, sReq, sName, sCalls, sOrder, sResp, gPc, gReq, gOut, gResp,
          hPc, hCalls, hMicro, hResp, hist, gAns, hIssued, env, registry, sUrls,
          phase, iPc, iReq, iStore, iResp, cache, now, pk, statsDB, tGet, tLoad,
          vPc, vImages, vOut, vHeads>>

(***************************************************************************)
(* Bounds and program constants                                            *)
(***************************************************************************)
MaxQueryLen == 2

SEARCH_TIMEOUT == 5000
HEALTH_TIMEOUT == 5000

\* How long a backend takes to answer, in ms: well within and beyond the timeouts.
Latencies == {10, 20, SEARCH_TIMEOUT + 1}

\* What a backend does with a call: answers 2xx, answers non-2xx, or is unreachable.
Kinds == {"ok", "http", "net"}

(***************************************************************************)
(* HTTP requests: a path (its segments) and a query string (its pairs).    *)
(* A pair name[]=value has arr = TRUE.                                     *)
(***************************************************************************)
Pair(n, v) == [name |-> n, arr |-> FALSE, value |-> v]

ParamNames == {"pokemon_name", "type"}
ParamValues == {"", "pikachu"}
ClientPairs == {Pair(n, v) : n \in ParamNames, v \in ParamValues}

SeqsUpTo(S, n) == UNION {[1..k -> S] : k \in 0..n}
ClientQueries == SeqsUpTo(ClientPairs, MaxQueryLen)

NoReq == [path |-> <<>>, query |-> <<>>]

(***************************************************************************)
(* express's query parser (qs): req.query[name]                            *)
(***************************************************************************)
RECURSIVE ValuesOf(_, _)
ValuesOf(q, n) ==
    IF q = <<>> THEN <<>>
    ELSE IF Head(q).name = n THEN <<Head(q).value>> \o ValuesOf(Tail(q), n)
         ELSE ValuesOf(Tail(q), n)

HasBracket(q, n) == \E i \in 1..Len(q) : q[i].name = n /\ q[i].arr

\* t = "none": undefined; "str": a string a[1]; "arr": the array a
QueryValue(q, n) ==
    LET vs == ValuesOf(q, n)
    IN  IF vs = <<>> THEN [t |-> "none", a |-> <<>>]
        ELSE IF Len(vs) = 1 /\ ~HasBracket(q, n) THEN [t |-> "str", a |-> vs]
        ELSE [t |-> "arr", a |-> vs]

RECURSIVE NamesOf(_)
\* the keys of req.query, in order of first appearance
NamesOf(q) ==
    IF q = <<>> THEN <<>>
    ELSE LET rest == NamesOf(SubSeq(q, 1, Len(q) - 1))
             n == q[Len(q)].name
         IN  IF \E i \in 1..Len(rest) : rest[i] = n THEN rest ELSE Append(rest, n)

\* only undefined is falsy
TruthyUnlessUndefined(v) == v.t # "none"
\* JavaScript truthiness of a query value: undefined and "" are falsy
Truthy(v) == (v.t = "arr") \/ (v.t = "str" /\ v.a[1] # "")

RECURSIVE Join(_)
Join(a) ==
    IF a = <<>> THEN ""
    ELSE IF Len(a) = 1 THEN a[1]
    ELSE a[1] \o "," \o Join(Tail(a))

\* `${v}`: a string is itself, an array is its elements joined by commas
Interpolate(v) == IF v.t = "none" THEN "undefined" ELSE Join(v.a)

(***************************************************************************)
(* JSON values are opaque: who produced the value, what it is, and the URL *)
(* path of the call it answers.                                            *)
(***************************************************************************)
Val(from, what, of) == [from |-> from, what |-> what, of |-> of]

\* the fields of the poke service's pokemonData object
PokeFields == {"id", "name", "stats", "sprites"}

EmptyObj == [k \in {} |-> k]
\* { ...d, ...p }
Spread(d, p) == p @@ d
\* an assignment that keeps a field the object already has
SetFieldIfAbsent(d, k, v) == d @@ (k :> v)
\* d[k] = v
SetField(d, k, v) == (k :> v) @@ d

(***************************************************************************)
(* Search service: GET /poke/search                                        *)
(***************************************************************************)
\* the promises array, in array order; named by their key in response.status
BackendOrder == <<"poke_api", "stats_api", "images_api">>
Backends == {BackendOrder[i] : i \in 1..Len(BackendOrder)}

Resource(b) ==
    CASE b = "poke_api" -> "pokemon"
      [] b = "stats_api" -> "stats"
      [] b = "images_api" -> "images"

\* `${X_API_URL}/api/<resource>/${pokemonName}`
BackendPath(b, name) == <<"api", Resource(b), Interpolate(name)>>

NoCall == [state |-> "none", base |-> "", url |-> <<>>, kind |-> "ok", latency |-> 0]
NoResp == [code |-> 0, body |-> EmptyObj]

\* axios's timeout option: the call is aborted when no answer came in time
TimedOutNever(latency, timeout) == FALSE
TimedOut(latency, timeout) == latency > timeout

\* when the promise of a call settles, counted from its start
SettleTime(c, timeout) == IF TimedOut(c.latency, timeout) THEN timeout ELSE c.latency

\* "fulfilled" or "rejected": what axios.get makes of the backend's behaviour
Settlement(c, timeout) ==
    IF ~TimedOut(c.latency, timeout) /\ c.kind = "ok" THEN "fulfilled" ELSE "rejected"

\* error.message of a rejected call
ErrorMessage(c, timeout) ==
    IF TimedOut(c.latency, timeout) THEN "timeout exceeded"
    ELSE IF c.kind = "http" THEN "Request failed with status code"
    ELSE "connect ECONNREFUSED"

\* response.data of a fulfilled call
Payload(b, url) ==
    IF b = "poke_api" THEN [f \in PokeFields |-> Val(b, f, url)]
    ELSE Val(b, "payload", url)

\* one element of the array Promise.allSettled resolves to
Result(b, c) ==
    IF c.state = "fulfilled" THEN [status |-> "fulfilled", value |-> Payload(b, c.url)]
    ELSE IF c.state = "rejected"
         THEN [status |-> "rejected",
               message |-> Val(b, ErrorMessage(c, SEARCH_TIMEOUT), c.url)]
         ELSE [status |-> c.state, message |-> Val(b, "undefined", c.url)]

\* Promise.all: resolves when all are fulfilled, rejects with the first rejection
JoinReadyFailFast(calls) ==
    \/ \A b \in DOMAIN calls : calls[b].state = "fulfilled"
    \/ \E b \in DOMAIN calls : calls[b].state = "rejected"
\* Promise.allSettled: resolves once every promise has settled
JoinReady(calls) == \A b \in DOMAIN calls : calls[b].state \in {"fulfilled", "rejected"}

\* await Promise.all(promises) throws the rejection of a rejected promise
AwaitPromiseAll(calls) ==
    [thrown |-> \E b \in DOMAIN calls : calls[b].state = "rejected",
     results |-> [b \in DOMAIN calls |-> Result(b, calls[b])]]
\* await Promise.allSettled(promises) never throws
AwaitAllSettled(calls) ==
    [thrown |-> FALSE, results |-> [b \in DOMAIN calls |-> Result(b, calls[b])]]

\* the results come in the order they settled in
ResultOrderByCompletion(completion) == completion
\* Promise.allSettled delivers the results in array order, whatever order they settled in
ResultOrder(completion) == BackendOrder

\* the data field a rejected call's message is stored under
ErrorKeyShared(b) == "error"
ErrorKey(b) ==
    CASE b = "poke_api" -> "poke_api_error"
      [] b = "stats_api" -> "stats_error"
      [] b = "images_api" -> "image_error"

\* the data field a fulfilled call's payload is stored under (poke_api: spread)
DataKey(b) ==
    CASE b = "stats_api" -> "stats"
      [] b = "images_api" -> "image"

\* a rejected result is skipped
MergeOneSkipRejected(resp, b, r) ==
    IF r.status = "fulfilled"
    THEN [resp EXCEPT
            !.data = IF b = "poke_api" THEN Spread(@, r.value)
                     ELSE SetField(@, DataKey(b), r.value),
            !.status = SetField(@, b, "success")]
    ELSE resp
\* one of the three if/else blocks that process a result
MergeOne(resp, b, r) ==
    IF r.status = "fulfilled"
    THEN [resp EXCEPT
            !.data = IF b = "poke_api" THEN Spread(@, r.value)
                     ELSE SetField(@, DataKey(b), r.value),
            !.status = SetField(@, b, "success")]
    ELSE [resp EXCEPT
            !.data = SetField(@, ErrorKey(b), r.message),
            !.status = SetField(@, b, "error")]

RECURSIVE MergeAll(_, _, _)
MergeAll(resp, order, results) ==
    IF order = <<>> THEN resp
    ELSE MergeAll(MergeOne(resp, Head(order), results[Head(order)]), Tail(order), results)

\* data starts as what the previous search left in it
InitialDataCarried ==
    IF \E h \in hist : h.tag = "last" /\ "data" \in DOMAIN h.body
    THEN (CHOOSE h \in hist : h.tag = "last").body.data
    ELSE EmptyObj
\* const response = { name, status: {}, data: {} }: a new object in every call
InitialData == EmptyObj

\* the response object the orchestration returns
BuildResponse(name, order, results) ==
    MergeAll([name |-> name, status |-> EmptyObj, data |-> InitialData], order, results)

\* where the handler is after starting its n-th sub-call: awaiting each call in turn
PcAfterLaunchAwaitEach(n, total) == "await"
\* where the handler is after starting its n-th sub-call of total: the array of
\* promises is built synchronously, the await comes after the last one
PcAfterLaunch(n, total) == IF n = total THEN "await" ELSE "launch"

Launched(calls) == {b \in DOMAIN calls : calls[b].state # "none"}

\* if (!pokemon_name) return res.status(400)
Rejects(name) == ~Truthy(name)

\* the handler up to its first await
SearchHandle(req) ==
    LET name == QueryValue(req.query, "pokemon_name")
    IN  /\ sReq' = req
        /\ sName' = name
        /\ sCalls' = [b \in Backends |-> NoCall]
        /\ sOrder' = <<>>
        /\ IF Rejects(name)
           THEN /\ sPc' = "done"
                /\ sResp' = [code |-> 400,
                             body |-> [error |-> "pokemon_name parameter is required"]]
           ELSE /\ sPc' = "launch"
                /\ sResp' = NoResp

\* a client calls the search service directly
SearchReceive(q) ==
    /\ phase = "serving"
    /\ sPc = "idle" /\ gPc = "idle" /\ hPc = "idle" /\ iPc = "idle"
    /\ SearchHandle([path |-> <<"poke", "search">>, query |-> q])
    /\ UNCHANGED <<gatewayVars, statusVars, hist, configVars, imagesVars, backendVars>>

\* fetchPokemonData / fetchPokemonStats / fetchPokemonImage: start the next call
SearchLaunch(kind, latency) ==
    /\ sPc = "launch"
    /\ LET n == Cardinality(Launched(sCalls)) + 1
           b == BackendOrder[n]
       IN  /\ sCalls' = [sCalls EXCEPT ![b] =
                            [state |-> "pending", base |-> sUrls[b],
                             url |-> BackendPath(b, sName),
                             kind |-> kind, latency |-> latency]]
           /\ sPc' = PcAfterLaunch(n, Len(BackendOrder))
    /\ UNCHANGED <<sReq, sName, sOrder, sResp, gatewayVars, statusVars, hist, configVars, imagesVars, backendVars>>

\* the promise of one call settles while the handler is suspended at its await
SearchSettle(b) ==
    /\ sPc = "await"
    /\ sCalls[b].state = "pending"
    /\ \A o \in Backends : sCalls[o].state = "pending" =>
          SettleTime(sCalls[b], SEARCH_TIMEOUT) <= SettleTime(sCalls[o], SEARCH_TIMEOUT)
    /\ sCalls' = [sCalls EXCEPT ![b].state = Settlement(sCalls[b], SEARCH_TIMEOUT)]
    /\ sOrder' = Append(sOrder, b)
    /\ UNCHANGED <<sPc, sReq, sName, sResp, gatewayVars, statusVars, hist, configVars, imagesVars, backendVars>>

\* the await returns: build the response and send it
SearchRespond ==
    /\ sPc = "await"
    /\ JoinReady(sCalls)
    /\ LET aw == AwaitAllSettled(sCalls)
       IN  sResp' = IF aw.thrown
                    THEN [code |-> 500, body |-> [error |-> "Internal server error"]]
                    ELSE [code |-> 200,
                          body |-> BuildResponse(sName, ResultOrder(sOrder), aw.results)]
    /\ sPc' = "done"
    /\ UNCHANGED <<sReq, sName, sCalls, sOrder, gatewayVars, statusVars, hist, configVars, imagesVars, backendVars>>

SearchIdle ==
    /\ sPc' = "idle" /\ sReq' = NoReq /\ sName' = QueryValue(<<>>, "pokemon_name")
    /\ sCalls' = [b \in Backends |-> NoCall] /\ sOrder' = <<>> /\ sResp' = NoResp

\* the directly calling client has its response
SearchFinish ==
    /\ sPc = "done" /\ gPc = "idle"
    /\ SearchIdle
    /\ UNCHANGED <<gatewayVars, statusVars, hist, configVars, imagesVars, backendVars>>

(***************************************************************************)
(* Gateway: createProxy                                                    *)
(***************************************************************************)
\* MICROSERVICES, in the order of Object.entries
ServiceOrder == <<"SEARCH_API", "STATS_API", "IMAGES_API", "POKE_API">>
Services == {ServiceOrder[i] : i \in 1..Len(ServiceOrder)}

IsPrefix(p, path) == Len(p) <= Len(path) /\ SubSeq(path, 1, Len(p)) = p

\* the app.use(prefix, createProxy(service, prefix)) routes
Route(path) ==
    CASE IsPrefix(<<"poke", "search">>, path) -> "SEARCH_API"
      [] IsPrefix(<<"api", "pokemon">>, path) -> "POKE_API"
      [] IsPrefix(<<"api", "stats">>, path) -> "STATS_API"
      [] IsPrefix(<<"api", "images">>, path) -> "IMAGES_API"

ProxiedPaths ==
    {<<"poke", "search">>, <<"api", "pokemon", "pikachu">>,
     <<"api", "stats", "pikachu">>, <<"api", "images", "pikachu">>}

(***************************************************************************)
(* Configuration: process.env and the base URLs read from it at load time  *)
(***************************************************************************)
\* an environment variable that is not set (or set to the empty string)
Unset == ""

\* the URLs of docker-compose.yml
ComposeUrl(s) ==
    CASE s = "SEARCH_API" -> "http://search-api:3001"
      [] s = "STATS_API" -> "http://stats-api:3002"
      [] s = "IMAGES_API" -> "http://images-api:3003"
      [] s = "POKE_API" -> "http://poke-api:3004"

\* the literal after || in the code
DefaultUrl(s) ==
    CASE s = "SEARCH_API" -> "http://localhost:3001"
      [] s = "STATS_API" -> "http://localhost:3002"
      [] s = "IMAGES_API" -> "http://localhost:3003"
      [] s = "POKE_API" -> "http://localhost:3004"

\* the environment variable read for a backend of the search service
ServiceOf(b) ==
    CASE b = "poke_api" -> "POKE_API"
      [] b = "stats_api" -> "STATS_API"
      [] b = "images_api" -> "IMAGES_API"
SearchServices == {ServiceOf(b) : b \in Backends}

\* process.env.X with nothing to fall back on
OrUndefined(v, d) == v
\* process.env.X || d
OrDefault(v, d) == IF v = Unset THEN d ELSE v

\* const MICROSERVICES = { SEARCH_API: process.env.SEARCH_API_URL || ..., ... }
LoadRegistry(e) == [s \in Services |-> OrDefault(e[s], DefaultUrl(s))]
\* const POKE_API_URL = process.env.POKE_API_URL || ...; STATS_API_URL; IMAGES_API_URL
LoadSearchUrls(e) == [b \in Backends |-> OrDefault(e[ServiceOf(b)], DefaultUrl(ServiceOf(b)))]

\* every variable set, as in docker-compose.yml
ComposeEnv ==
    [gateway |-> [s \in Services |-> ComposeUrl(s)],
     search |-> [s \in SearchServices |-> ComposeUrl(s)]]
\* each variable set or not
AllEnvs ==
    {[gateway |-> g, search |-> r] :
        g \in {f \in [Services -> {Unset} \cup {ComposeUrl(s) : s \in Services}] :
                  \A s \in Services : f[s] \in {Unset, ComposeUrl(s)}},
        r \in {f \in [SearchServices -> {Unset} \cup {ComposeUrl(s) : s \in Services}] :
                  \A s \in SearchServices : f[s] \in {Unset, ComposeUrl(s)}}}

(***************************************************************************)
(* Gateway: createProxy                                                    *)
(***************************************************************************)
\* a header whose value is undefined
Undefined == "undefined"

\* the body of a request as sent: its content type, its layout and its content
NoBody == [ctype |-> "", layout |-> "", content |-> ""]
Bodies ==
    {NoBody,
     [ctype |-> "application/json", layout |-> "compact", content |-> "{a:1}"],
     [ctype |-> "application/json", layout |-> "spaced", content |-> "{a:1}"],
     [ctype |-> "text/plain", layout |-> "raw", content |-> "abc"]}

Methods == {"GET", "POST"}
HeaderSets ==
    {[host |-> "gateway:3000"],
     [host |-> "gateway:3000", authorization |-> "token"]}

\* what a client sends to the gateway: every path with every query, and every
\* path with every method, header set and body
ProxiedRequests ==
    {[method |-> "GET", path |-> p, query |-> q,
      headers |-> [host |-> "gateway:3000"], body |-> NoBody] :
        p \in ProxiedPaths, q \in ClientQueries}
    \cup
    {[method |-> m, path |-> p, query |-> <<>>, headers |-> h, body |-> b] :
        m \in Methods, p \in ProxiedPaths, h \in HeaderSets, b \in Bodies}

NoProxyReq == [method |-> "", path |-> <<>>, query |-> <<>>, headers |-> EmptyObj,
               body |-> NoBody]

\* express.json(): req.body is the parsed JSON body, {} when there is none or it
\* is not JSON
ParseBody(b) == IF b.ctype = "application/json" THEN b.content ELSE "{}"

\* axios sends data, an object, as its JSON.stringify; the content-type header
\* stays the forwarded one
SerializeData(data, ctype) ==
    [ctype |-> IF ctype = "" THEN "application/json" ELSE ctype,
     layout |-> "compact", content |-> data]

\* { ...req.headers }
ForwardHeadersWithHost(h) == h
\* { ...req.headers, host: undefined }; axios leaves out an undefined header
ForwardHeaders(h) ==
    LET set == SetField(h, "host", Undefined)
    IN  [k \in {x \in DOMAIN set : set[x] # Undefined} |-> set[k]]

\* Node's http client adds the Host header of the target when the request has none
TargetHost(h, base) ==
    IF "host" \in DOMAIN h THEN h
    ELSE SetField(h, "host", SubSeq(base, Len("http://") + 1, Len(base)))

\* axios's serialization of one key of params: key=value, or key[]=value per element
SerializeOne(n, v) ==
    IF v.t = "str" THEN <<Pair(n, v.a[1])>>
    ELSE [i \in 1..Len(v.a) |-> [name |-> n, arr |-> TRUE, value |-> v.a[i]]]

RECURSIVE SerializeNames(_, _)
SerializeNames(names, q) ==
    IF names = <<>> THEN <<>>
    ELSE SerializeOne(Head(names), QueryValue(q, Head(names)))
            \o SerializeNames(Tail(names), q)

\* the query string axios makes of params: req.query, the parsed query q
SerializeParams(q) == SerializeNames(NamesOf(q), q)

\* axios's buildURL: the serialized params are appended to the url's own query
BuildURL(path, query, params) == [path |-> path, query |-> query \o params]

\* the request axios sends: url = serviceUrl + req.originalUrl, params = req.query
ProxyTarget(service, req) ==
    LET u == BuildURL(req.path, req.query, SerializeParams(req.query))
    IN  [service |-> service, path |-> u.path, query |-> u.query]

\* the whole axios({method, url, data, params, headers}) call
ProxyRequest(service, base, req) ==
    LET t == ProxyTarget(service, req)
    IN  [service |-> t.service, base |-> base, method |-> req.method,
         path |-> t.path, query |-> t.query,
         headers |-> TargetHost(ForwardHeaders(req.headers), base),
         body |-> SerializeData(ParseBody(req.body), req.body.ctype)]

NoOut == [service |-> "", base |-> "", method |-> "", path |-> <<>>, query |-> <<>>,
          headers |-> EmptyObj, body |-> NoBody]
NoAns == [kind |-> "none"]

\* the proxy always answers 503 on a failure
ProxyResponseAlways503(service, ans) ==
    IF ans.kind = "answer" /\ ans.code >= 200 /\ ans.code < 300
    THEN [code |-> ans.code, body |-> ans.body]
    ELSE [code |-> 503,
          body |-> [error |-> "Service unavailable", service |-> service,
                    message |-> "Network error", timestamp |-> "now"]]
\* res.json(response.data) without res.status(response.status)
ProxyResponseAlways200(service, ans) ==
    IF ans.kind = "net"
    THEN [code |-> 503,
          body |-> [error |-> "Service unavailable", service |-> service,
                    message |-> "Network error", timestamp |-> "now"]]
    ELSE IF ans.code >= 200 /\ ans.code < 300
    THEN [code |-> 200, body |-> ans.body]
    ELSE [code |-> ans.code,
          body |-> [error |-> "Service unavailable", service |-> service,
                    message |-> "Service error", timestamp |-> "now"]]
\* what the proxy answers: ans is the backend's answer or the network failure
ProxyResponse(service, ans) ==
    IF ans.kind = "net"
    THEN [code |-> 503,
          body |-> [error |-> "Service unavailable", service |-> service,
                    message |-> "Network error", timestamp |-> "now"]]
    ELSE IF ans.code >= 200 /\ ans.code < 300
    THEN [code |-> ans.code, body |-> ans.body]
    ELSE [code |-> ans.code,
          body |-> [error |-> "Service unavailable", service |-> service,
                    message |-> "Service error", timestamp |-> "now"]]

\* the status codes a backend answers with
AnswerCodes == {200, 201, 404, 500}

\* a client calls the gateway on a proxied route
GatewayReceive(req) ==
    /\ phase = "serving"
    /\ sPc = "idle" /\ gPc = "idle" /\ hPc = "idle" /\ iPc = "idle"
    /\ gReq' = req
    /\ gOut' = ProxyRequest(Route(req.path), registry[Route(req.path)], req)
    /\ gPc' = "proxying"
    /\ gResp' = NoResp
    /\ gAns' = NoAns
    /\ UNCHANGED <<searchVars, statusVars, hist, configVars, imagesVars, backendVars>>

\* the search service receives the gateway's request
SearchReceiveProxied ==
    /\ gPc = "proxying" /\ gOut.service = "SEARCH_API" /\ gOut.method = "GET"
    /\ sPc = "idle"
    /\ SearchHandle([path |-> gOut.path, query |-> gOut.query])
    /\ UNCHANGED <<gatewayVars, statusVars, hist, configVars, imagesVars, backendVars>>

\* the search service's response reaches the gateway
GatewayRelaySearch ==
    /\ gPc = "proxying" /\ sPc = "done"
    /\ LET ans == [kind |-> "answer", code |-> sResp.code, body |-> sResp.body]
       IN  /\ gAns' = ans
           /\ gResp' = ProxyResponse(gOut.service, ans)
    /\ gPc' = "done"
    /\ SearchIdle
    /\ UNCHANGED <<gReq, gOut, statusVars, hist, configVars, imagesVars, backendVars>>

\* one of the other services answers the gateway's request; the search service
\* answers 404 to anything but GET
GatewayBackendAnswer(code) ==
    /\ gPc = "proxying"
    /\ \/ gOut.service # "SEARCH_API"
       \/ gOut.method # "GET" /\ code = 404
    /\ LET ans == [kind |-> "answer", code |-> code,
                   body |-> Val(gOut.service, "body", gOut.path)]
       IN  /\ gAns' = ans
           /\ gResp' = ProxyResponse(gOut.service, ans)
    /\ gPc' = "done"
    /\ UNCHANGED <<gReq, gOut, searchVars, statusVars, hist, configVars, imagesVars, backendVars>>

\* the backend cannot be reached
GatewayNetworkError ==
    /\ gPc = "proxying" /\ sPc = "idle"
    /\ gAns' = [kind |-> "net"]
    /\ gResp' = ProxyResponse(gOut.service, [kind |-> "net"])
    /\ gPc' = "done"
    /\ UNCHANGED <<gReq, gOut, searchVars, statusVars, hist, configVars, imagesVars, backendVars>>

GatewayFinish ==
    /\ gPc = "done"
    /\ gPc' = "idle" /\ gReq' = NoProxyReq /\ gOut' = NoOut /\ gResp' = NoResp
    /\ gAns' = NoAns
    /\ UNCHANGED <<searchVars, statusVars, hist, configVars, imagesVars, backendVars>>

\* the modules are loaded: the base URLs are read from the environment, then
\* app.listen starts serving
Startup ==
    /\ phase = "starting"
    /\ registry' = LoadRegistry(env.gateway)
    /\ sUrls' = LoadSearchUrls(env.search)
    /\ phase' = "serving"
    /\ UNCHANGED <<env, searchVars, gatewayVars, statusVars, hist, imagesVars, backendVars>>

(***************************************************************************)
(* Gateway: GET /status                                                    *)
(***************************************************************************)
\* serviceName.toLowerCase()
LowerCase(s) ==
    CASE s = "SEARCH_API" -> "search_api"
      [] s = "STATS_API" -> "stats_api"
      [] s = "IMAGES_API" -> "images_api"
      [] s = "POKE_API" -> "poke_api"

\* error.code of a failed axios call
ErrorCode(c, timeout) ==
    IF TimedOut(c.latency, timeout) THEN "ECONNABORTED"
    ELSE IF c.kind = "http" THEN "ERR_BAD_RESPONSE"
    ELSE "ECONNREFUSED"

\* the entry a health check writes into status.microservices when it settles
HealthEntry(s, c) ==
    IF Settlement(c, HEALTH_TIMEOUT) = "fulfilled"
    THEN [status |-> "healthy", url |-> c.base, response_time |-> "unknown",
          data |-> Val(s, "health", c.url)]
    ELSE [status |-> "unhealthy", url |-> c.base,
          error |-> Val(s, ErrorMessage(c, HEALTH_TIMEOUT), c.url),
          error_code |-> ErrorCode(c, HEALTH_TIMEOUT)]

\* status.microservices = { [key]: entry }
RecordEntryOnly(micro, s, entry) == [k \in {LowerCase(s)} |-> entry]
\* status.microservices[serviceName.toLowerCase()] = entry
RecordEntry(micro, s, entry) == SetField(micro, LowerCase(s), entry)

\* a failed check is sent once more
RetriesOnFailure(settlement) == IF settlement = "rejected" THEN 1 ELSE 0
\* how often the callback repeats axios.get after it settled: its catch block
\* records the entry and returns
Retries(settlement) == 0

\* Promise.race(healthChecks)
AnyCheckDone(calls) == \E s \in DOMAIN calls : calls[s].state \in {"fulfilled", "rejected"}
\* await Promise.all(healthChecks): every callback has returned
AllChecksDone(calls) == \A s \in DOMAIN calls : calls[s].state \in {"fulfilled", "rejected"}

\* Object.values(status.microservices).some(...)
SomeHealthy(micro) == \E k \in DOMAIN micro : micro[k].status = "healthy"
\* Object.values(status.microservices).every(service => service.status === 'healthy')
AllHealthy(micro) == \A k \in DOMAIN micro : micro[k].status = "healthy"

\* the body and the code of res.status(responseCode).json(status)
StatusResponse(micro) ==
    [code |-> IF AllHealthy(micro) THEN 200 ELSE 503,
     body |-> [overall_status |-> IF AllHealthy(micro) THEN "healthy" ELSE "degraded",
               microservices |-> micro]]

StatusReceive ==
    /\ phase = "serving"
    /\ sPc = "idle" /\ gPc = "idle" /\ hPc = "idle" /\ iPc = "idle"
    /\ hPc' = "launch"
    /\ hCalls' = [s \in Services |-> NoCall]
    /\ hIssued' = [s \in Services |-> 0]
    /\ hMicro' = EmptyObj
    /\ hResp' = NoResp
    /\ UNCHANGED <<searchVars, gatewayVars, hist, configVars, imagesVars, backendVars>>

\* one callback of Object.entries(MICROSERVICES).map runs up to its await
StatusLaunch(kind, latency) ==
    /\ hPc = "launch"
    /\ LET n == Cardinality(Launched(hCalls)) + 1
           s == ServiceOrder[n]
       IN  /\ hCalls' = [hCalls EXCEPT ![s] =
                            [state |-> "pending", base |-> registry[s],
                             url |-> <<"health">>,
                             kind |-> kind, latency |-> latency]]
           /\ hIssued' = [hIssued EXCEPT ![s] = @ + 1]
           /\ hPc' = PcAfterLaunch(n, Len(ServiceOrder))
    /\ UNCHANGED <<hMicro, hResp, searchVars, gatewayVars, hist, configVars, imagesVars, backendVars>>

\* one health check settles and its callback records the entry
StatusSettle(s) ==
    /\ hPc = "await"
    /\ hCalls[s].state = "pending"
    /\ \A o \in Services : hCalls[o].state = "pending" =>
          SettleTime(hCalls[s], HEALTH_TIMEOUT) <= SettleTime(hCalls[o], HEALTH_TIMEOUT)
    /\ IF hIssued[s] <= Retries(Settlement(hCalls[s], HEALTH_TIMEOUT))
       THEN /\ hIssued' = [hIssued EXCEPT ![s] = @ + 1]
            /\ UNCHANGED <<hCalls, hMicro>>
       ELSE /\ hCalls' = [hCalls EXCEPT ![s].state = Settlement(hCalls[s], HEALTH_TIMEOUT)]
            /\ hMicro' = RecordEntry(hMicro, s, HealthEntry(s, hCalls[s]))
            /\ UNCHANGED hIssued
    /\ UNCHANGED <<hPc, hResp, searchVars, gatewayVars, hist, configVars, imagesVars, backendVars>>

\* await Promise.all(healthChecks) returns: reduce and send
StatusRespond ==
    /\ hPc = "await"
    /\ AllChecksDone(hCalls)
    /\ hResp' = StatusResponse(hMicro)
    /\ hPc' = "done"
    /\ UNCHANGED <<hCalls, hMicro, hIssued, searchVars, gatewayVars, hist, configVars,
                   imagesVars, backendVars>>

StatusFinish ==
    /\ hPc = "done"
    /\ hPc' = "idle" /\ hCalls' = [s \in Services |-> NoCall]
    /\ hIssued' = [s \in Services |-> 0]
    /\ hMicro' = EmptyObj /\ hResp' = NoResp
    /\ UNCHANGED <<searchVars, gatewayVars, hist, configVars, imagesVars, backendVars>>

(***************************************************************************)
(* Images service: its routes in the order they are registered             *)
(***************************************************************************)
\* app.get(pattern, handler), in source order
ImagesRoutes ==
    <<[handler |-> "GET_POKEMON_IMAGES", pattern |-> <<"api", "images", ":pokemonName">>],
      [handler |-> "GET_MULTIPLE_IMAGES", pattern |-> <<"api", "images">>],
      [handler |-> "SEARCH_IMAGES", pattern |-> <<"api", "images", "search">>],
      [handler |-> "GET_IMAGE_STATS", pattern |-> <<"api", "images", "stats">>],
      [handler |-> "HEALTH_CHECK", pattern |-> <<"health">>]>>

\* a pattern segment :name matches any segment, a literal one matches itself
SegmentMatches(pat, seg) == SubSeq(pat, 1, 1) = ":" \/ pat = seg
PathMatches(pattern, path) ==
    /\ Len(pattern) = Len(path)
    /\ \A i \in 1..Len(pattern) : SegmentMatches(pattern[i], path[i])

\* express runs the first registered route that matches; 0 when there is none
Dispatch(path) ==
    LET hits == {i \in 1..Len(ImagesRoutes) : PathMatches(ImagesRoutes[i].pattern, path)}
    IN  IF hits = {} THEN 0 ELSE CHOOSE i \in hits : \A j \in hits : i <= j

\* String.prototype.toLowerCase on the names a client sends
ToLowerCase(n) ==
    CASE n = "Mew" -> "mew"
      [] n = "Pikachu" -> "pikachu"
      [] n = "Eevee" -> "eevee"
      [] OTHER -> n

\* String.prototype.includes
Includes(str, q) ==
    \E i \in 1..(Len(str) - Len(q) + 1) : SubSeq(str, i, i + Len(q) - 1) = q

\* sampleImageData, loaded by initializeImageData: name -> metadata.source
SampleStore == [n \in {"pikachu", "charizard", "bulbasaur"} |-> "sample"]

\* the body of app.get('/api/images/:pokemonName')
GetPokemonImages(name, store) ==
    LET key == ToLowerCase(name)
        after == IF key \in DOMAIN store THEN store
                 ELSE SetField(store, key, "fallback_generated")
    IN  [store |-> after,
         resp |-> [code |-> 200, handler |-> "GET_POKEMON_IMAGES",
                   body |-> [name |-> key, names |-> {}, total |-> 0]]]

\* the body of app.get('/api/images/search')
SearchImages(query, store) ==
    LET q == QueryValue(query, "query")
    IN  IF ~Truthy(q)
        THEN [store |-> store,
              resp |-> [code |-> 400, handler |-> "SEARCH_IMAGES",
                        body |-> [name |-> "", names |-> {}, total |-> 0]]]
        ELSE LET found == {n \in DOMAIN store : Includes(n, ToLowerCase(q.a[1]))}
             IN  [store |-> store,
                  resp |-> [code |-> 200, handler |-> "SEARCH_IMAGES",
                            body |-> [name |-> "", names |-> found,
                                      total |-> Cardinality(found)]]]

\* the bodies of app.get('/api/images'), app.get('/api/images/stats') and
\* app.get('/health'): they read the store
ReadStore(handler, store) ==
    [store |-> store,
     resp |-> [code |-> 200, handler |-> handler,
               body |-> [name |-> "", names |-> DOMAIN store,
                         total |-> Cardinality(DOMAIN store)]]]

\* what the images service does with a request
ImagesHandle(req, store) ==
    LET i == Dispatch(req.path)
    IN  IF i = 0
        THEN [store |-> store,
              resp |-> [code |-> 404, handler |-> "",
                        body |-> [name |-> "", names |-> {}, total |-> 0]]]
        ELSE IF ImagesRoutes[i].handler = "GET_POKEMON_IMAGES"
        THEN GetPokemonImages(req.path[3], store)
        ELSE IF ImagesRoutes[i].handler = "SEARCH_IMAGES"
        THEN SearchImages(req.query, store)
        ELSE ReadStore(ImagesRoutes[i].handler, store)

ImagesPaths ==
    {<<"api", "images", "pikachu">>, <<"api", "images", "Mew">>,
     <<"api", "images", "ditto">>, <<"api", "images", "search">>,
     <<"api", "images", "stats">>, <<"api", "images">>, <<"health">>,
     <<"api", "other">>}
ImagesQueries ==
    {<<>>, <<Pair("query", "")>>, <<Pair("query", "pika")>>, <<Pair("query", "s")>>,
     <<Pair("query", "zz")>>}
ImagesRequests == {[path |-> p, query |-> q] : p \in ImagesPaths, q \in ImagesQueries}

NoImagesResp == [code |-> 0, handler |-> "", body |-> [name |-> "", names |-> {}, total |-> 0]]

\* a client sends a GET request to the images service
ImagesReceive(req) ==
    /\ phase = "serving"
    /\ sPc = "idle" /\ gPc = "idle" /\ hPc = "idle" /\ iPc = "idle"
    /\ iReq' = req
    /\ iStore' = ImagesHandle(req, iStore).store
    /\ iResp' = ImagesHandle(req, iStore).resp
    /\ iPc' = "done"
    /\ UNCHANGED <<searchVars, gatewayVars, statusVars, hist, configVars, backendVars>>

ImagesFinish ==
    /\ iPc = "done"
    /\ iPc' = "idle" /\ iReq' = NoReq /\ iResp' = NoImagesResp
    /\ UNCHANGED <<iStore, searchVars, gatewayVars, statusVars, hist, configVars, backendVars>>

(***************************************************************************)
(* Poke service: GET /api/pokemon/:identifier and its cache                *)
(***************************************************************************)
CACHE_TTL == 300000
\* the period of the cleanup timer; the clock of the model advances by it
CLEANUP_INTERVAL == 60000
\* the clock stops after this many periods
MaxTicks == 7

PokeSlots == {1, 2}
PokeIdentifiers == {"pikachu", "Pikachu"}

\* what pokeapi.co does with a call: the revision of the data it answers with,
\* a non-2xx status, or no answer (unreachable, or the 10000 ms timeout)
ExternalAnswers ==
    {[kind |-> "ok", code |-> 200, data |-> r] : r \in {"rev1", "rev2"}}
    \cup {[kind |-> "http", code |-> c, data |-> ""] : c \in {404, 503}}
    \cup {[kind |-> "net", code |-> 0, data |-> ""]}

\* `pokemon_${identifier.toLowerCase()}`
CacheKey(identifier) == "pokemon_" \o ToLowerCase(identifier)

\* cache.get(key): undefined when there is no entry
NoEntry == [present |-> FALSE, data |-> "", timestamp |-> 0]
CacheGet(c, key) ==
    IF key \in DOMAIN c
    THEN [present |-> TRUE, data |-> c[key].data, timestamp |-> c[key].timestamp]
    ELSE NoEntry

\* an entry is fresh up to and including CACHE_TTL
IsFreshInclusive(cached, t) == cached.present /\ (t - cached.timestamp) <= CACHE_TTL
\* cached && (Date.now() - cached.timestamp) < CACHE_TTL
IsFresh(cached, t) == cached.present /\ (t - cached.timestamp) < CACHE_TTL

\* the first writer's entry stays
CacheSetIfAbsent(c, key, entry) == IF key \in DOMAIN c THEN c ELSE SetField(c, key, entry)
\* cache.set(cacheKey, { data: pokemonData, timestamp: Date.now() })
CacheSet(c, key, entry) == SetField(c, key, entry)

\* the entry of a failed lookup is dropped
CacheDropOnFailure(c, key) == [k \in DOMAIN c \ {key} |-> c[k]]
\* the catch block of the handler does not touch the cache
CacheAfterFailure(c, key) == c

\* the status of the catch block's response
FailureCode(out) == IF out.kind = "http" /\ out.code = 404 THEN 404 ELSE 500

\* the entries the cleanup timer leaves: those not older than CACHE_TTL
CleanedCache(c, t) ==
    [k \in {x \in DOMAIN c : ~(t - c[x].timestamp > CACHE_TTL)} |-> c[k]]

NoPokeResp == [code |-> 0, data |-> ""]
NoAnswer == [kind |-> "none", code |-> 0, data |-> ""]
\* a request: the entry its cache check saw, whether it answered from the cache,
\* how many calls to pokeapi.co it made and what came back, whether another
\* request for the same key was waiting at the same time
IdleSlot ==
    [pc |-> "idle", identifier |-> "", seen |-> NoEntry, hit |-> FALSE, ext |-> 0,
     out |-> NoAnswer, overlap |-> FALSE, resp |-> NoPokeResp]

\* another request for the same cache key is waiting for pokeapi.co
Overlapping(i, key) ==
    \E j \in PokeSlots \ {i} :
        pk[j].pc = "calling" /\ CacheKey(pk[j].identifier) = key

\* the handler up to its first suspension: the cache check, then either the
\* cached data or the call to pokeapi.co
PokeReceive(i, identifier) ==
    /\ phase = "serving"
    /\ pk[i].pc = "idle"
    /\ LET key == CacheKey(identifier)
           cached == CacheGet(cache, key)
       IN  IF IsFresh(cached, now)
           THEN pk' = [pk EXCEPT ![i] =
                         [pc |-> "done", identifier |-> identifier, seen |-> cached,
                          hit |-> TRUE, ext |-> 0, out |-> NoAnswer,
                          overlap |-> FALSE,
                          resp |-> [code |-> 200, data |-> cached.data]]]
           ELSE pk' = [j \in PokeSlots |->
                         IF j = i
                         THEN [pc |-> "calling", identifier |-> identifier,
                               seen |-> cached, hit |-> FALSE, ext |-> 1,
                               out |-> NoAnswer, overlap |-> Overlapping(i, key), resp |-> NoPokeResp]
                         ELSE IF pk[j].pc = "calling" /\ CacheKey(pk[j].identifier) = key
                         THEN [pk[j] EXCEPT !.overlap = TRUE]
                         ELSE pk[j]]
    /\ UNCHANGED <<cache, now, searchVars, gatewayVars, statusVars, hist, configVars,
                   imagesVars, statsSvcVars, validateVars>>

\* the call to pokeapi.co settles and the handler runs to its response
PokeExternalAnswer(i, out) ==
    /\ pk[i].pc = "calling"
    /\ LET key == CacheKey(pk[i].identifier)
       IN  IF out.kind = "ok"
           THEN /\ cache' = CacheSet(cache, key, [data |-> out.data, timestamp |-> now])
                /\ pk' = [pk EXCEPT ![i].pc = "done", ![i].out = out,
                                    ![i].resp = [code |-> 200, data |-> out.data]]
           ELSE /\ cache' = CacheAfterFailure(cache, key)
                /\ pk' = [pk EXCEPT ![i].pc = "done", ![i].out = out,
                                    ![i].resp = [code |-> FailureCode(out), data |-> ""]]
    /\ UNCHANGED <<now, searchVars, gatewayVars, statusVars, hist, configVars,
                   imagesVars, statsSvcVars, validateVars>>

PokeFinish(i) ==
    /\ pk[i].pc = "done"
    /\ pk' = [pk EXCEPT ![i] = IdleSlot]
    /\ UNCHANGED <<cache, now, searchVars, gatewayVars, statusVars, hist, configVars,
                   imagesVars, statsSvcVars, validateVars>>

\* the setInterval callback
CacheCleanup ==
    /\ phase = "serving"
    /\ cache' = CleanedCache(cache, now)
    /\ UNCHANGED <<now, pk, searchVars, gatewayVars, statusVars, hist, configVars,
                   imagesVars, statsSvcVars, validateVars>>

\* app.delete('/api/cache')
CacheClear ==
    /\ phase = "serving"
    /\ cache' = EmptyObj
    /\ UNCHANGED <<now, pk, searchVars, gatewayVars, statusVars, hist, configVars,
                   imagesVars, statsSvcVars, validateVars>>

\* time passes
Tick ==
    /\ phase = "serving"
    /\ now < MaxTicks * CLEANUP_INTERVAL
    /\ now' = now + CLEANUP_INTERVAL
    /\ UNCHANGED <<cache, pk, searchVars, gatewayVars, statusVars, hist, configVars,
                   imagesVars, statsSvcVars, validateVars>>

(***************************************************************************)
(* Stats service: pokemonStatsDB and its handlers                          *)
(***************************************************************************)
\* samplePokemonStats
SampleNames == {"pikachu", "charizard", "bulbasaur", "squirtle", "mewtwo", "mew"}
SampleEntry(n) == [name |-> n, source |-> "sample", roll |-> 0]

\* what Math.random gives generateMockStats
MockRolls == {1, 2}
\* generateMockStats(pokemonName)
GenerateMockStats(name, roll) == [name |-> ToLowerCase(name), source |-> "mock", roll |-> roll]

\* initializeStatsData up to its return: each sample is set under its name and
\* isDataLoaded becomes true; nothing in it suspends
InitializeStatsData(st) ==
    [isDataLoaded |-> TRUE,
     db |-> [n \in DOMAIN st.db \cup SampleNames |->
                IF n \in SampleNames THEN SampleEntry(n) ELSE st.db[n]]]

\* pokemonStatsDB.clear()
ClearOnly(st) == [isDataLoaded |-> st.isDataLoaded, db |-> EmptyObj]
\* pokemonStatsDB.clear(); await initializeStatsData(): the store when the
\* handler suspends at the await, the callee having run to its end
ClearAndReload(st) == InitializeStatsData(ClearOnly(st))

\* if (!isDataLoaded) await initializeStatsData()
EnsureLoaded(st) == IF st.isDataLoaded THEN st ELSE InitializeStatsData(st)

\* mock stats are generated for every request
StatsRegenerate(st, name, roll) ==
    [store |-> [st EXCEPT !.db = SetField(@, ToLowerCase(name),
                                          GenerateMockStats(name, roll))],
     result |-> GenerateMockStats(name, roll)]
\* the lookup of app.get('/api/stats/:pokemonName'): the stored entry, or a
\* mock entry that is stored and returned
StatsLookup(st, name, roll) ==
    LET key == ToLowerCase(name)
    IN  IF key \in DOMAIN st.db
        THEN [store |-> st, result |-> st.db[key]]
        ELSE [store |-> [st EXCEPT !.db = SetField(@, key, GenerateMockStats(name, roll))],
              result |-> GenerateMockStats(name, roll)]

\* every failure of the analysis is answered 500
AnalysisCodeAlways500(found) == IF found THEN 200 ELSE 500
\* the analysis throws 'Pokemon ... not found' and its catch block answers 404
AnalysisCode(found) == IF found THEN 200 ELSE 404

NoStatsEntry == [name |-> "", source |-> "", roll |-> 0]
IdleGet == [pc |-> "idle", route |-> "", name |-> "", code |-> 0, body |-> NoStatsEntry]
IdleLoad == [pc |-> "idle", code |-> 0, count |-> 0]

StatsNames == {"pikachu", "Pikachu", "eevee", "Eevee", "ditto"}

\* GET /api/stats/:pokemonName
StatsGet(name, roll) ==
    /\ phase = "serving"
    /\ tGet.pc = "idle"
    /\ LET r == StatsLookup(EnsureLoaded(statsDB), name, roll)
       IN  /\ statsDB' = r.store
           /\ tGet' = [pc |-> "done", route |-> "stats", name |-> name,
                       code |-> 200, body |-> r.result]
    /\ UNCHANGED <<tLoad, searchVars, gatewayVars, statusVars, hist, configVars,
                   imagesVars, pokeVars, validateVars>>

\* GET /api/stats/analysis/:pokemonName
StatsAnalysis(name) ==
    /\ phase = "serving"
    /\ tGet.pc = "idle"
    /\ LET st == EnsureLoaded(statsDB)
           key == ToLowerCase(name)
       IN  /\ statsDB' = st
           /\ tGet' = [pc |-> "done", route |-> "analysis", name |-> name,
                       code |-> AnalysisCode(key \in DOMAIN st.db),
                       body |-> IF key \in DOMAIN st.db THEN st.db[key]
                                ELSE NoStatsEntry]
    /\ UNCHANGED <<tLoad, searchVars, gatewayVars, statusVars, hist, configVars,
                   imagesVars, pokeVars, validateVars>>

StatsGetFinish ==
    /\ tGet.pc = "done"
    /\ tGet' = IdleGet
    /\ UNCHANGED <<statsDB, tLoad, searchVars, gatewayVars, statusVars, hist,
                   configVars, imagesVars, pokeVars, validateVars>>

\* POST /api/stats/load-csv, up to the point where the handler suspends
StatsLoadRun ==
    /\ phase = "serving"
    /\ tLoad.pc = "idle"
    /\ statsDB' = ClearAndReload(statsDB)
    /\ tLoad' = [pc |-> "awaiting", code |-> 0, count |-> 0]
    /\ UNCHANGED <<tGet, searchVars, gatewayVars, statusVars, hist, configVars,
                   imagesVars, pokeVars, validateVars>>

\* the handler resumes: { loaded: pokemonStatsDB.size } and the response
StatsLoadRespond ==
    /\ tLoad.pc = "awaiting"
    /\ tLoad' = [pc |-> "done", code |-> 200, count |-> Cardinality(DOMAIN statsDB.db)]
    /\ UNCHANGED <<statsDB, tGet, searchVars, gatewayVars, statusVars, hist,
                   configVars, imagesVars, pokeVars, validateVars>>

StatsLoadFinish ==
    /\ tLoad.pc = "done"
    /\ tLoad' = IdleLoad
    /\ UNCHANGED <<statsDB, tGet, searchVars, gatewayVars, statusVars, hist,
                   configVars, imagesVars, pokeVars, validateVars>>

(***************************************************************************)
(* Images service: validateImageUrls, and the search service waiting for   *)
(* GET /api/images/:pokemonName                                            *)
(***************************************************************************)
IMAGE_TIMEOUT == 3000

\* the keys of a Pokemon's images object, in the order of Object.entries
ImageKeys ==
    <<"official_artwork", "front_default", "front_shiny", "back_default", "back_shiny">>

\* how long the target of a HEAD request takes, in ms
HeadLatencies == {100, 2000, IMAGE_TIMEOUT + 1}
\* what a HEAD request meets: an answer after some time, or a prompt failure
HeadOutcomes ==
    {[kind |-> "ok", latency |-> l] : l \in HeadLatencies}
    \cup {[kind |-> k, latency |-> 100] : k \in Kinds \ {"ok"}}
\* the arguments validateImageUrls is applied to
ValidateInputs == {SubSeq(ImageKeys, 1, n) : n \in 0..Len(ImageKeys)}

\* the entry validateImageUrls writes for one URL
ValidatedEntry(key, head) ==
    IF Settlement(head, IMAGE_TIMEOUT) = "fulfilled"
    THEN [url |-> key, status |-> "available", error |-> ""]
    ELSE [url |-> key, status |-> "unavailable",
          error |-> ErrorMessage(head, IMAGE_TIMEOUT)]

\* a failed HEAD request ends the loop
AfterHeadUncaught(settlement, last) ==
    IF settlement = "rejected" THEN "thrown"
    ELSE IF last THEN "returned" ELSE "checking"
\* where the loop is after one URL: try and catch both fall through to the next
\* iteration, and after the last one validatedImages is returned
AfterHead(settlement, last) == IF last THEN "returned" ELSE "checking"

RECURSIVE ElapsedParallel(_)
\* the HEAD requests run at the same time
ElapsedParallel(heads) ==
    IF heads = <<>> THEN 0
    ELSE LET t == SettleTime(Head(heads), IMAGE_TIMEOUT)
             r == ElapsedParallel(Tail(heads))
         IN  IF t > r THEN t ELSE r
RECURSIVE Elapsed(_)
\* the time validateImageUrls takes: each HEAD request is awaited before the
\* next one is sent
Elapsed(heads) ==
    IF heads = <<>> THEN 0
    ELSE SettleTime(Head(heads), IMAGE_TIMEOUT) + Elapsed(Tail(heads))

\* validateImageUrls is applied to an images object
ValidateCall(images) ==
    /\ phase = "serving"
    /\ vPc = "idle" /\ sPc = "idle"
    /\ vImages' = images
    /\ vOut' = EmptyObj
    /\ vHeads' = <<>>
    /\ vPc' = IF images = <<>> THEN "returned" ELSE "checking"
    /\ UNCHANGED <<searchVars, gatewayVars, statusVars, hist, configVars, imagesVars,
                   pokeVars, statsSvcVars>>

\* the images service takes the search service's GET /api/images/:pokemonName
\* and reaches validateImageUrls(pokemonData.images)
ImagesServeSearch ==
    /\ vPc = "idle" /\ sPc = "await"
    /\ sCalls["images_api"].state = "pending"
    /\ vImages' = ImageKeys
    /\ vOut' = EmptyObj
    /\ vHeads' = <<>>
    /\ vPc' = "checking"
    /\ UNCHANGED <<searchVars, gatewayVars, statusVars, hist, configVars, imagesVars,
                   pokeVars, statsSvcVars>>

\* one iteration of the loop: the HEAD request for the next URL settles
ValidateHead(head) ==
    /\ vPc = "checking"
    /\ LET n == Len(vHeads) + 1
       IN  /\ vOut' = SetField(vOut, vImages[n], ValidatedEntry(vImages[n], head))
           /\ vHeads' = Append(vHeads, head)
           /\ vPc' = AfterHead(Settlement(head, IMAGE_TIMEOUT), n = Len(vImages))
    /\ UNCHANGED <<vImages, searchVars, gatewayVars, statusVars, hist, configVars,
                   imagesVars, pokeVars, statsSvcVars>>

\* the images service answers the search service with res.json(result): the
\* answer has taken the time of the validation on top of the network's
ImagesAnswerSearch ==
    /\ vPc = "returned" /\ sPc = "await"
    /\ sCalls["images_api"].state = "pending"
    /\ sCalls' = [sCalls EXCEPT !["images_api"].latency = @ + Elapsed(vHeads)]
    /\ vPc' = "answered"
    /\ UNCHANGED <<sPc, sReq, sName, sOrder, sResp, vImages, vOut, vHeads, gatewayVars,
                   statusVars, hist, configVars, imagesVars, pokeVars, statsSvcVars>>

\* the caller of validateImageUrls has its result
ValidateFinish ==
    /\ vPc = "returned" /\ sPc = "idle"
    /\ vPc' = "idle" /\ vImages' = <<>> /\ vOut' = EmptyObj /\ vHeads' = <<>>
    /\ UNCHANGED <<searchVars, gatewayVars, statusVars, hist, configVars, imagesVars,
                   pokeVars, statsSvcVars>>

\* a call of the search service settles; the one to the images service only
\* once that service has answered
SearchSettleAnswered(b) ==
    /\ b = "images_api" => vPc = "answered"
    /\ SearchSettle(b)

\* the client of the search has its response
SearchFinishAnswered ==
    /\ sPc = "done"
    /\ SearchIdle
    /\ vPc' = "idle" /\ vImages' = <<>> /\ vOut' = EmptyObj /\ vHeads' = <<>>
    /\ UNCHANGED <<gatewayVars, statusVars, hist, configVars, imagesVars, pokeVars,
                   statsSvcVars>>

(***************************************************************************)
(* Specification                                                           *)
(***************************************************************************)
InitProcesses ==
    /\ sPc = "idle" /\ sReq = NoReq /\ sName = QueryValue(<<>>, "pokemon_name")
    /\ sCalls = [b \in Backends |-> NoCall] /\ sOrder = <<>> /\ sResp = NoResp
    /\ gPc = "idle" /\ gReq = NoProxyReq /\ gOut = NoOut /\ gResp = NoResp
    /\ gAns = NoAns
    /\ hPc = "idle" /\ hCalls = [s \in Services |-> NoCall]
    /\ hIssued = [s \in Services |-> 0]
    /\ hMicro = EmptyObj /\ hResp = NoResp
    /\ hist = {}
    /\ registry = EmptyObj /\ sUrls = EmptyObj /\ phase = "starting"
    /\ iPc = "idle" /\ iReq = NoReq /\ iStore = SampleStore /\ iResp = NoImagesResp
    /\ cache = EmptyObj /\ now = 0 /\ pk = [i \in PokeSlots |-> IdleSlot]
    /\ statsDB = InitializeStatsData([isDataLoaded |-> FALSE, db |-> EmptyObj])
    /\ tGet = IdleGet /\ tLoad = IdleLoad
    /\ vPc = "idle" /\ vImages = <<>> /\ vOut = EmptyObj /\ vHeads = <<>>

\* the processes are started with the environment of docker-compose.yml
Init == InitProcesses /\ env = ComposeEnv

Next ==
    \/ Startup
    \/ \E q \in ClientQueries : SearchReceive(q)
    \/ \E k \in Kinds, l \in Latencies : SearchLaunch(k, l)
    \/ \E b \in Backends : SearchSettle(b)
    \/ SearchRespond
    \/ SearchFinish
    \/ \E req \in ProxiedRequests : GatewayReceive(req)
    \/ SearchReceiveProxied
    \/ GatewayRelaySearch
    \/ \E code \in AnswerCodes : GatewayBackendAnswer(code)
    \/ GatewayNetworkError
    \/ GatewayFinish
    \/ StatusReceive
    \/ \E k \in Kinds, l \in Latencies : StatusLaunch(k, l)
    \/ \E s \in Services : StatusSettle(s)
    \/ StatusRespond
    \/ StatusFinish

Spec == Init /\ [][Next]_vars

(***************************************************************************)
(* The search service under repeated identical requests: the first         *)
(* completed search is kept for comparison with the later ones.            *)
(***************************************************************************)
\* what the three backends did, as the handler sees it
Outcomes == [b \in Backends |-> Result(b, sCalls[b])]

OrderReceive ==
    /\ phase = "serving"
    /\ sPc = "idle"
    /\ SearchHandle([path |-> <<"poke", "search">>,
                     query |-> <<Pair("pokemon_name", "pikachu")>>])
    /\ UNCHANGED <<gatewayVars, statusVars, hist, configVars, imagesVars, backendVars>>

OrderFinish ==
    /\ sPc = "done"
    /\ hist' = IF hist = {}
               THEN {[outcomes |-> Outcomes, order |-> sOrder, body |-> sResp.body]}
               ELSE hist
    /\ SearchIdle
    /\ UNCHANGED <<gatewayVars, statusVars, configVars, imagesVars, backendVars>>

NextOrder ==
    \/ Startup
    \/ OrderReceive
    \/ \E k \in Kinds, l \in Latencies : SearchLaunch(k, l)
    \/ \E b \in Backends : SearchSettle(b)
    \/ SearchRespond
    \/ OrderFinish

SpecOrder == Init /\ [][NextOrder]_vars

(***************************************************************************)
(* The search service under a sequence of searches for different keys: the *)
(* first completed search with a key and the most recent completed search  *)
(* are kept for comparison.                                                *)
(***************************************************************************)
RepeatQueries ==
    {<<>>, <<Pair("pokemon_name", "pikachu")>>, <<Pair("pokemon_name", "charizard")>>}

RepeatFinish ==
    /\ sPc = "done"
    /\ LET this == [outcomes |-> Outcomes, body |-> sResp.body]
           first == {h \in hist : h.tag = "first"}
       IN  hist' = (IF first = {} /\ "data" \in DOMAIN sResp.body
                    THEN {[tag |-> "first", outcomes |-> this.outcomes, body |-> this.body]}
                    ELSE first)
                   \cup {[tag |-> "last", outcomes |-> this.outcomes, body |-> this.body]}
    /\ SearchIdle
    /\ UNCHANGED <<gatewayVars, statusVars, configVars, imagesVars, backendVars>>

NextRepeat ==
    \/ Startup
    \/ \E q \in RepeatQueries : SearchReceive(q)
    \/ \E k \in {"ok", "net"}, l \in {10} : SearchLaunch(k, l)
    \/ \E b \in Backends : SearchSettle(b)
    \/ SearchRespond
    \/ RepeatFinish

SpecRepeat == Init /\ [][NextRepeat]_vars

(***************************************************************************)
(* The gateway under repeated /status checks: the first check that found   *)
(* every service healthy is kept for comparison with the later ones.       *)
(***************************************************************************)
StatusLatencies == {10, HEALTH_TIMEOUT + 1}

StatusKeep ==
    /\ hPc = "done"
    /\ hist' = IF hist = {} /\ AllHealthy(hMicro)
               THEN {[calls |-> hCalls, code |-> hResp.code, body |-> hResp.body]}
               ELSE hist
    /\ hPc' = "idle" /\ hCalls' = [s \in Services |-> NoCall]
    /\ hIssued' = [s \in Services |-> 0]
    /\ hMicro' = EmptyObj /\ hResp' = NoResp
    /\ UNCHANGED <<searchVars, gatewayVars, configVars, imagesVars, backendVars>>

NextStatus ==
    \/ Startup
    \/ StatusReceive
    \/ \E k \in Kinds, l \in StatusLatencies : StatusLaunch(k, l)
    \/ \E s \in Services : StatusSettle(s)
    \/ StatusRespond
    \/ StatusKeep

SpecStatus == Init /\ [][NextStatus]_vars

(***************************************************************************)
(* The gateway and the search service started with any environment         *)
(***************************************************************************)
InitConfig == InitProcesses /\ env \in AllEnvs

\* one client request per proxy route
ConfigRequests ==
    {[method |-> "POST", path |-> p, query |-> <<>>,
      headers |-> [host |-> "gateway:3000"], body |-> NoBody] : p \in ProxiedPaths}

NextConfig ==
    \/ Startup
    \/ \E req \in ConfigRequests : GatewayReceive(req)
    \/ \E code \in {200} : GatewayBackendAnswer(code)
    \/ GatewayNetworkError
    \/ GatewayFinish
    \/ OrderReceive
    \/ \E k \in {"ok"}, l \in {10} : SearchLaunch(k, l)
    \/ \E b \in Backends : SearchSettle(b)
    \/ SearchRespond
    \/ SearchFinish

SpecConfig == InitConfig /\ [][NextConfig]_vars

(***************************************************************************)
(* The images service on its own                                           *)
(***************************************************************************)
NextImages ==
    \/ Startup
    \/ \E req \in ImagesRequests : ImagesReceive(req)
    \/ ImagesFinish

SpecImages == Init /\ [][NextImages]_vars

(***************************************************************************)
(* The poke service on its own                                             *)
(***************************************************************************)
NextPoke ==
    \/ Startup
    \/ \E i \in PokeSlots, id \in PokeIdentifiers : PokeReceive(i, id)
    \/ \E i \in PokeSlots, out \in ExternalAnswers : PokeExternalAnswer(i, out)
    \/ \E i \in PokeSlots : PokeFinish(i)
    \/ CacheCleanup
    \/ CacheClear
    \/ Tick

SpecPoke == Init /\ [][NextPoke]_vars

(***************************************************************************)
(* The stats service on its own                                            *)
(***************************************************************************)
NextStats ==
    \/ Startup
    \/ \E n \in StatsNames, r \in MockRolls : StatsGet(n, r)
    \/ \E n \in StatsNames : StatsAnalysis(n)
    \/ StatsGetFinish
    \/ StatsLoadRun
    \/ StatsLoadRespond
    \/ StatsLoadFinish

SpecStats == Init /\ [][NextStats]_vars

(***************************************************************************)
(* validateImageUrls on its own and behind a search                        *)
(***************************************************************************)
NextValidate ==
    \/ Startup
    \/ \E images \in ValidateInputs : ValidateCall(images)
    \/ \E head \in HeadOutcomes : ValidateHead(head)
    \/ ValidateFinish
    \/ OrderReceive
    \/ \E k \in {"ok"}, l \in {10} : SearchLaunch(k, l)
    \/ ImagesServeSearch
    \/ ImagesAnswerSearch
    \/ \E b \in Backends : SearchSettleAnswered(b)
    \/ SearchRespond
    \/ SearchFinishAnswered

SpecValidate == Init /\ [][NextValidate]_vars

(***************************************************************************)
(* Properties                                                              *)
(***************************************************************************)
PokemonNamePairs == {i \in 1..Len(sReq.query) : sReq.query[i].name = "pokemon_name"}
\* the request names a key
KeyNonEmpty == \E i \in PokemonNamePairs : sReq.query[i].value # ""
\* the request has no pokemon_name, or a single empty one
KeyMissingOrEmpty ==
    \/ PokemonNamePairs = {}
    \/ /\ Cardinality(PokemonNamePairs) = 1
       /\ \A i \in PokemonNamePairs : sReq.query[i].value = "" /\ ~sReq.query[i].arr

\* the backend answered 2xx within the timeout
Succeeded(b) == sCalls[b].kind = "ok" /\ sCalls[b].latency < SEARCH_TIMEOUT
Exceeded(b) == sCalls[b].latency > SEARCH_TIMEOUT
SearchDone == sPc = "done" /\ KeyNonEmpty
Aggregated == "status" \in DOMAIN sResp.body /\ "data" \in DOMAIN sResp.body

\* C1: whatever subset of the three backends fails, the search response to a
\* request with a key carries a status map with exactly the entries poke_api,
\* stats_api and images_api, each "success" if that backend's call succeeded and
\* "error" if not; the handler answers with this response, no failure escapes it.
C1_StatusMapPerBackend ==
    SearchDone =>
        /\ Aggregated
        /\ DOMAIN sResp.body.status = {"poke_api", "stats_api", "images_api"}
        /\ \A b \in Backends :
              sResp.body.status[b] = IF Succeeded(b) THEN "success" ELSE "error"

C1_Witness ==
    /\ SearchDone /\ Aggregated
    /\ \E b, o \in Backends : Succeeded(b) /\ ~Succeeded(o)

\* C2: the three calls settle independently: a call that has settled settled by
\* its own backend's behaviour alone, the response is built only once all three
\* have settled, and a backend that succeeded has its payload in the response
\* whatever failed beside it.
C2_SettleIndependently ==
    /\ \A b \in Backends :
          sCalls[b].state \in {"fulfilled", "rejected"} =>
              (sCalls[b].state = "fulfilled" <=> Succeeded(b))
    /\ SearchDone =>
          /\ \A b \in Backends : sCalls[b].state \in {"fulfilled", "rejected"}
          /\ Aggregated
          /\ Succeeded("stats_api") =>
                "stats" \in DOMAIN sResp.body.data
                /\ sResp.body.data["stats"] = Val("stats_api", "payload", sCalls["stats_api"].url)
          /\ Succeeded("images_api") =>
                "image" \in DOMAIN sResp.body.data
                /\ sResp.body.data["image"] = Val("images_api", "payload", sCalls["images_api"].url)
          /\ Succeeded("poke_api") =>
                \A f \in PokeFields :
                    (f = "stats" /\ Succeeded("stats_api"))
                    \/ (f \in DOMAIN sResp.body.data
                        /\ sResp.body.data[f] = Val("poke_api", f, sCalls["poke_api"].url))

C2_Witness ==
    /\ SearchDone /\ Aggregated
    /\ \E b \in Backends : ~Succeeded(b) /\ \A o \in Backends \ {b} : Succeeded(o)
    /\ sOrder[1] \in {b \in Backends : ~Succeeded(b)}

\* C3: two searches for the same key whose backends behave the same produce the
\* same response body, whatever order the three calls completed in.
C3_OrderInsensitive ==
    sPc = "done" =>
        \A h \in hist : h.outcomes = Outcomes => h.body = sResp.body

C3_Witness ==
    /\ sPc = "done"
    /\ \E h \in hist :
          /\ h.outcomes = Outcomes
          /\ h.order = <<"poke_api", "stats_api", "images_api">>
          /\ sOrder = <<"images_api", "stats_api", "poke_api">>
          /\ \A b \in Backends : Succeeded(b)

\* the message of the failure of backend b
FailureMessage(b) ==
    Val(b, IF Exceeded(b) THEN "timeout exceeded"
           ELSE IF sCalls[b].kind = "http" THEN "Request failed with status code"
           ELSE "connect ECONNREFUSED", sCalls[b].url)

\* the data field the failure of backend b is reported under
ErrorField(b) ==
    CASE b = "poke_api" -> "poke_api_error"
      [] b = "stats_api" -> "stats_error"
      [] b = "images_api" -> "image_error"

\* the payload of backend b is in data: spread (poke_api) or under its own field
PayloadMerged(b) ==
    CASE b = "poke_api" ->
            \A f \in PokeFields :
                /\ f \in DOMAIN sResp.body.data
                /\ (f = "stats" /\ Succeeded("stats_api"))
                   \/ sResp.body.data[f] = Val(b, f, sCalls[b].url)
      [] b = "stats_api" ->
            /\ "stats" \in DOMAIN sResp.body.data
            /\ sResp.body.data["stats"] = Val(b, "payload", sCalls[b].url)
      [] b = "images_api" ->
            /\ "image" \in DOMAIN sResp.body.data
            /\ sResp.body.data["image"] = Val(b, "payload", sCalls[b].url)

C5_Always200 ==
    /\ SearchDone => sResp.code = 200
    /\ sResp.code # 500

C5_Witness ==
    /\ SearchDone /\ sResp.code = 200
    /\ \A b \in Backends : ~Succeeded(b)

C7_TimeoutIsolation ==
    (SearchDone /\ Aggregated) =>
        \A b \in Backends :
            /\ Exceeded(b) =>
                  /\ sResp.body.status[b] = "error"
                  /\ ErrorField(b) \in DOMAIN sResp.body.data
                  /\ sResp.body.data[ErrorField(b)] = Val(b, "timeout exceeded", sCalls[b].url)
            /\ Succeeded(b) => sResp.body.status[b] = "success" /\ PayloadMerged(b)

C7_Witness ==
    /\ SearchDone /\ Aggregated
    /\ \E b \in Backends : Exceeded(b) /\ \E o \in Backends \ {b} : Succeeded(o)

\* C8: in the search aggregation and in the /status aggregation, once any
\* sub-call has settled every sub-call has been started: none is started only
\* after another one settled.
C8_LaunchAllBeforeAwait ==
    /\ (\E b \in Backends : sCalls[b].state \in {"fulfilled", "rejected"})
          => \A b \in Backends : sCalls[b].state # "none"
    /\ (\E s \in Services : hCalls[s].state \in {"fulfilled", "rejected"})
          => \A s \in Services : hCalls[s].state # "none"

C8_Witness ==
    /\ sPc = "await"
    /\ sCalls["images_api"].state \in {"fulfilled", "rejected"}
    /\ sCalls["poke_api"].state = "pending"

\* C9: the request the gateway sends to the backend has the inbound request's
\* path and query string unchanged.
C9_QueryUnchanged ==
    gPc \in {"proxying", "done"} =>
        gOut.path = gReq.path /\ gOut.query = gReq.query

\* C10: for GET /poke/search?pokemon_name=k through the gateway, with one
\* non-empty k, the search service calls /api/pokemon/k, /api/stats/k and
\* /api/images/k, and the response's name is k.
C10_KeyEndToEnd ==
    \A k \in ParamValues \ {""} :
        (gPc = "proxying" /\ gReq.path = <<"poke", "search">>
            /\ gReq.query = <<Pair("pokemon_name", k)>>) =>
            /\ \A b \in Backends :
                  sCalls[b].state # "none" => sCalls[b].url = <<"api", Resource(b), k>>
            /\ (sPc = "done" /\ Aggregated) =>
                  sResp.body.name = [t |-> "str", a |-> <<k>>]

\* the gateway has taken a request on a proxied route and made the outbound one
Proxied == gPc \in {"proxying", "done"}

\* C11: for every proxied request the outbound request never carries the inbound
\* request's host header (the Host sent is the backend's own), and every other
\* inbound header is forwarded with its value.
C11_HostScrubbed ==
    Proxied =>
        /\ "host" \in DOMAIN gOut.headers => gOut.headers["host"] # gReq.headers["host"]
        /\ \A k \in DOMAIN gReq.headers \ {"host"} :
              k \in DOMAIN gOut.headers /\ gOut.headers[k] = gReq.headers[k]

C11_Witness ==
    /\ Proxied
    /\ "authorization" \in DOMAIN gReq.headers
    /\ "authorization" \in DOMAIN gOut.headers
    /\ gOut.headers["host"] = "stats-api:3002"

\* C12: for every proxied request the outbound request uses the inbound method
\* and carries the inbound body verbatim: the body the backend receives equals
\* the body the client sent, for every method.
C12_MethodAndBodyVerbatim ==
    Proxied => gOut.method = gReq.method /\ gOut.body = gReq.body

\* the backend answered the proxied request with a 2xx status
Answered2xx == gAns.kind = "answer" /\ gAns.code >= 200 /\ gAns.code < 300
\* the proxied call failed: no answer, or an answer that is not 2xx
ProxyFailed == gAns.kind = "net" \/ (gAns.kind = "answer" /\ ~Answered2xx)

\* C13: when the backend answers a proxied request with a 2xx status, the
\* gateway's response has the same status code and the same body as the
\* backend's response.
C13_RelaySuccess ==
    (gPc = "done" /\ Answered2xx) =>
        gResp.code = gAns.code /\ gResp.body = gAns.body

C13_Witness ==
    /\ gPc = "done" /\ Answered2xx /\ gAns.code = 201
    /\ gResp.code = 201 /\ gResp.body = gAns.body

\* C14: when a proxied call fails the gateway answers 503 if there was no
\* backend response and the backend's own status code if it answered non-2xx;
\* in both cases the handler answers (nothing escapes it) with a body of exactly
\* the fields error = "Service unavailable", service = the service's name,
\* message and timestamp.
C14_ProxyFailure ==
    (gPc = "done" /\ ProxyFailed) =>
        /\ gResp.code = IF gAns.kind = "net" THEN 503 ELSE gAns.code
        /\ DOMAIN gResp.body = {"error", "service", "message", "timestamp"}
        /\ gResp.body.error = "Service unavailable"
        /\ gResp.body.service = gOut.service
        /\ gOut.service = Route(gReq.path)

C14_Witness ==
    /\ gPc = "done" /\ gAns.kind = "answer" /\ gAns.code = 404
    /\ gResp.code = 404 /\ gResp.body.error = "Service unavailable"

\* the /status response has been sent
StatusDone == hPc = "done"
\* the key of a registry entry in `microservices`
StatusKey(s) ==
    CASE s = "SEARCH_API" -> "search_api"
      [] s = "STATS_API" -> "stats_api"
      [] s = "IMAGES_API" -> "images_api"
      [] s = "POKE_API" -> "poke_api"
\* the service's /health call succeeded within the timeout
HealthOk(c) == c.kind = "ok" /\ c.latency < HEALTH_TIMEOUT

\* C15: in every /status response overall_status is "healthy" if and only if
\* every entry of `microservices` has status "healthy", and "degraded"
\* otherwise; the HTTP status is 200 exactly when overall_status is "healthy"
\* and 503 otherwise.
C15_OverallStatus ==
    StatusDone =>
        /\ hResp.body.overall_status \in {"healthy", "degraded"}
        /\ hResp.body.overall_status = "healthy" <=>
              \A k \in DOMAIN hResp.body.microservices :
                  hResp.body.microservices[k].status = "healthy"
        /\ hResp.code \in {200, 503}
        /\ hResp.code = 200 <=> hResp.body.overall_status = "healthy"

C15_Witness ==
    /\ StatusDone
    /\ hResp.body.overall_status = "degraded" /\ hResp.code = 503
    /\ \E k \in DOMAIN hResp.body.microservices :
          hResp.body.microservices[k].status = "healthy"

\* C16: of two /status checks that differ only in one backend being unhealthy
\* instead of healthy (every other backend behaves the same in both), the first
\* reports overall_status "healthy" and the second "degraded", that backend's
\* entry differs, and the entries of all other backends are equal.
C16_OneFlip ==
    StatusDone =>
        \A h \in hist : \A s \in Services :
            (/\ ~HealthOk(hCalls[s])
             /\ \A o \in Services \ {s} : hCalls[o] = h.calls[o]) =>
                /\ h.body.overall_status = "healthy"
                /\ hResp.body.overall_status = "degraded"
                /\ DOMAIN hResp.body.microservices = {StatusKey(o) : o \in Services}
                /\ DOMAIN h.body.microservices = {StatusKey(o) : o \in Services}
                /\ hResp.body.microservices[StatusKey(s)] #
                      h.body.microservices[StatusKey(s)]
                /\ \A o \in Services \ {s} :
                      hResp.body.microservices[StatusKey(o)] =
                          h.body.microservices[StatusKey(o)]

C16_Witness ==
    /\ StatusDone /\ hist # {}
    /\ \E h \in hist : \E s \in Services :
          /\ ~HealthOk(hCalls[s])
          /\ \A o \in Services \ {s} : hCalls[o] = h.calls[o]
          /\ hResp.body.overall_status = "degraded"

\* C17: a /status response is sent only after the health call to every registry
\* entry has settled, and `microservices` has exactly one entry per registry
\* entry: "healthy" with the backend's payload exactly when the call to
\* <baseURL>/health succeeded within 5000 ms, otherwise "unhealthy" with the
\* error message and the error code; no backend's failure removes another's entry.
C17_OneEntryPerService ==
    StatusDone =>
        /\ \A s \in Services : hCalls[s].state \in {"fulfilled", "rejected"}
        /\ DOMAIN hResp.body.microservices = {StatusKey(s) : s \in Services}
        /\ \A s \in Services :
              LET e == hResp.body.microservices[StatusKey(s)]
              IN  /\ hCalls[s].base = registry[s] /\ hCalls[s].url = <<"health">>
                  /\ e.url = registry[s]
                  /\ IF HealthOk(hCalls[s])
                     THEN /\ e.status = "healthy"
                          /\ e.data = Val(s, "health", <<"health">>)
                     ELSE /\ e.status = "unhealthy"
                          /\ {"error", "error_code"} \subseteq DOMAIN e
                          /\ e.error_code \in {"ECONNABORTED", "ECONNREFUSED",
                                               "ERR_BAD_RESPONSE"}

C17_Witness ==
    /\ StatusDone
    /\ \E s, o \in Services :
          /\ hCalls[s].latency > HEALTH_TIMEOUT
          /\ hResp.body.microservices[StatusKey(s)].error_code = "ECONNABORTED"
          /\ hResp.body.microservices[StatusKey(o)].status = "healthy"

\* C18: a /status check issues exactly one /health call per registry entry, a
\* failed one is not sent again, and no step of the gateway (status check or
\* proxied request) changes the registry once it is loaded.
C18_NoRetryNoMutation ==
    /\ [](StatusDone => \A s \in Services : hIssued[s] = 1)
    /\ [][phase = "serving" => registry' = registry]_vars

C18_Witness ==
    /\ StatusDone
    /\ \E s \in Services : hCalls[s].state = "rejected" /\ hIssued[s] = 1
    /\ registry = [s \in Services |-> ComposeUrl(s)]

\* the environment lacks the base URL of a backend the gateway or the search
\* service refers to
EntryMissing ==
    \/ \E s \in Services : env.gateway[s] = Unset
    \/ \E s \in SearchServices : env.search[s] = Unset
\* the base URL a process uses for a service, given its environment
Effective(e, s) == IF e[s] = Unset THEN DefaultUrl(s) ELSE e[s]

\* C19 as stated: with a base URL missing from the configuration the process
\* fails at startup and never begins serving requests.
C19_Original ==
    EntryMissing => phase = "starting" /\ gPc = "idle" /\ sPc = "idle"

\* C19: with a base URL missing from the configuration the process starts all
\* the same: at load time the missing entry is replaced by the backend's default
\* http://localhost:<port>, and every proxied request and every call of the
\* aggregation for that backend is sent to the base URL fixed at load time.
C19_DefaultsApplied ==
    phase = "serving" =>
        /\ \A s \in Services : registry[s] = Effective(env.gateway, s)
        /\ \A b \in Backends : sUrls[b] = Effective(env.search, ServiceOf(b))
        /\ Proxied => gOut.base = Effective(env.gateway, gOut.service)
        /\ \A b \in Backends :
              sCalls[b].state # "none" =>
                  sCalls[b].base = Effective(env.search, ServiceOf(b))

C19_Witness ==
    /\ gPc = "proxying" /\ gOut.service = "STATS_API"
    /\ env.gateway["STATS_API"] = Unset
    /\ gOut.base = "http://localhost:3002"
    /\ env.search["POKE_API"] = Unset

\* the images service has answered a request
ImagesDone == iPc = "done"

\* C20: on the images service GET /api/images/search?query=q is handled by the
\* image search, which returns the stored entries whose name contains q and
\* leaves the store unchanged, and GET /api/images/stats by the image
\* statistics; neither is treated as a lookup of a Pokemon named "search" or
\* "stats".
C20_SearchAndStatsRouted ==
    /\ ImagesDone /\ iReq.path = <<"api", "images", "search">> =>
          iResp.handler = "SEARCH_IMAGES"
    /\ ImagesDone /\ iReq.path = <<"api", "images", "stats">> =>
          iResp.handler = "GET_IMAGE_STATS"
    /\ "search" \notin DOMAIN iStore
    /\ "stats" \notin DOMAIN iStore

\* the cache key of the identifiers a client sends
PokeKey(identifier) ==
    CASE identifier = "pikachu" -> "pokemon_pikachu"
      [] identifier = "Pikachu" -> "pokemon_pikachu"
      [] OTHER -> ""
\* the step in which the poke service takes request i, and the one in which the
\* call request i made to pokeapi.co settles
PokeTaken(i) == pk[i].pc = "idle" /\ pk'[i].pc # "idle"
PokeCompleted(i) == pk[i].pc = "calling" /\ pk'[i].pc = "done"
\* the entry under the key just before the step
EntryBefore(key) ==
    IF key \in DOMAIN cache
    THEN [present |-> TRUE, data |-> cache[key].data, timestamp |-> cache[key].timestamp]
    ELSE [present |-> FALSE, data |-> "", timestamp |-> 0]

\* C23: GET /api/pokemon/:id answers from the cache, without calling the
\* external API, if and only if an entry for the lower-cased identifier exists
\* whose age is strictly less than CACHE_TTL; otherwise it calls the external
\* API and on success overwrites the entry with the new data and the current
\* time. No response is served from an entry of age CACHE_TTL or more, whatever
\* the cleanup does in between.
C23_CacheFreshness ==
    /\ [][\A i \in PokeSlots :
            PokeTaken(i) =>
                LET e == EntryBefore(PokeKey(pk'[i].identifier))
                    fresh == e.present /\ now - e.timestamp < CACHE_TTL
                IN  /\ pk'[i].hit <=> fresh
                    /\ fresh => /\ pk'[i].pc = "done" /\ pk'[i].ext = 0
                                /\ pk'[i].resp = [code |-> 200, data |-> e.data]
                    /\ ~fresh => pk'[i].pc = "calling" /\ pk'[i].ext = 1]_vars
    /\ [][\A i \in PokeSlots :
            (PokeCompleted(i) /\ pk'[i].out.kind = "ok") =>
                /\ PokeKey(pk[i].identifier) \in DOMAIN cache'
                /\ cache'[PokeKey(pk[i].identifier)] =
                      [data |-> pk'[i].resp.data, timestamp |-> now]]_vars

C23_Witness ==
    \E i \in PokeSlots :
        /\ pk[i].pc = "calling" /\ pk[i].identifier = "Pikachu"
        /\ pk[i].seen.present /\ now - pk[i].seen.timestamp = CACHE_TTL
        /\ "pokemon_pikachu" \in DOMAIN cache

\* C24: when the external call of GET /api/pokemon/:id fails the cache is left
\* as it was (no entry added, an expired entry neither refreshed nor removed)
\* and the response is 404 when the external API answered 404, else 500.
C24_FailureKeepsCache ==
    [][\A i \in PokeSlots :
          (PokeCompleted(i) /\ pk'[i].out.kind # "ok") =>
              /\ cache' = cache
              /\ pk'[i].resp.code =
                    IF pk'[i].out.kind = "http" /\ pk'[i].out.code = 404
                    THEN 404 ELSE 500]_vars

C24_Witness ==
    \E i \in PokeSlots :
        /\ pk[i].pc = "done" /\ pk[i].out.kind = "net" /\ pk[i].resp.code = 500
        /\ pk[i].seen.present
        /\ "pokemon_pikachu" \in DOMAIN cache
        /\ cache["pokemon_pikachu"].timestamp = pk[i].seen.timestamp
        /\ now - pk[i].seen.timestamp > CACHE_TTL

\* C25: two overlapping requests for the same uncached or expired identifier
\* each call the external API; when the second of them completes the cache
\* holds one entry for the identifier, with the data and the time written by
\* that request, the one that completed last.
C25_LastWriterWins ==
    /\ [](\A i \in PokeSlots :
             (pk[i].pc # "idle" /\ pk[i].overlap) => ~pk[i].hit /\ pk[i].ext = 1)
    /\ [][\A i \in PokeSlots : \A j \in PokeSlots \ {i} :
            (/\ PokeCompleted(i) /\ pk[i].overlap /\ pk'[i].out.kind = "ok"
             /\ pk[j].pc = "done" /\ pk[j].overlap /\ pk[j].out.kind = "ok") =>
                /\ DOMAIN cache' = {PokeKey(pk[i].identifier)}
                /\ cache'[PokeKey(pk[i].identifier)] =
                      [data |-> pk'[i].out.data, timestamp |-> now]]_vars

C25_Witness ==
    /\ pk[1].pc = "done" /\ pk[2].pc = "done"
    /\ pk[1].overlap /\ pk[2].overlap
    /\ pk[1].resp = [code |-> 200, data |-> "rev1"]
    /\ pk[2].resp = [code |-> 200, data |-> "rev2"]
    /\ "pokemon_pikachu" \in DOMAIN cache
    /\ cache["pokemon_pikachu"].data = "rev1"

\* the key of the names a client sends to the stats service
StatsKey(name) ==
    CASE name = "Pikachu" -> "pikachu"
      [] name = "Eevee" -> "eevee"
      [] OTHER -> name
\* the six sample entries are in the store
SamplesLoaded ==
    \A n \in SampleNames :
        n \in DOMAIN statsDB.db /\ statsDB.db[n] = [name |-> n, source |-> "sample", roll |-> 0]
\* the steps of the stats service
LoadStep == tLoad.pc = "idle" /\ tLoad'.pc = "awaiting"
GetStep == tGet.pc = "idle" /\ tGet'.pc = "done" /\ tGet'.route = "stats"
AnalysisStep == tGet.pc = "idle" /\ tGet'.pc = "done" /\ tGet'.route = "analysis"

\* C26: POST /api/stats/load-csv replaces the store with exactly the six
\* sample entries, dropping every generated mock entry, and no request handled
\* while the load is in progress sees an empty or partially loaded store: in
\* every state in which a handler can run, the six samples are in the store.
C26_AtomicReload ==
    /\ [](SamplesLoaded /\ statsDB.isDataLoaded)
    /\ [][LoadStep => DOMAIN statsDB'.db = SampleNames]_vars

C26_Witness ==
    /\ tLoad.pc = "awaiting"
    /\ tGet.pc = "done" /\ tGet.name = "Pikachu" /\ tGet.body.source = "sample"
    /\ DOMAIN statsDB.db = SampleNames

\* C27: GET /api/stats/:name for a name not in the store stores generated mock
\* stats under the lower-cased name and returns them; for a name in the store,
\* in any letter case, it returns the stored stats; a GET never overwrites or
\* removes an entry, so the stats of a name stay the same until a load-csv.
C27_StoredStatsStable ==
    [][GetStep =>
          LET key == StatsKey(tGet'.name)
          IN  /\ \A k \in DOMAIN statsDB.db :
                    k \in DOMAIN statsDB'.db /\ statsDB'.db[k] = statsDB.db[k]
              /\ DOMAIN statsDB'.db = DOMAIN statsDB.db \cup {key}
              /\ tGet'.code = 200 /\ tGet'.body = statsDB'.db[key]
              /\ tGet'.body.name = key
              /\ key \notin DOMAIN statsDB.db => tGet'.body.source = "mock"]_vars

C27_Witness ==
    /\ tGet.pc = "done" /\ tGet.route = "stats" /\ tGet.name = "Eevee"
    /\ tGet.body = [name |-> "eevee", source |-> "mock", roll |-> 2]
    /\ tLoad.pc = "done"

\* C28: GET /api/stats/analysis/:name answers 404 and leaves the store
\* unchanged when the name is not in the store and 200 when it is, so the
\* answer for an unknown name depends on the requests before it: 200 once a
\* GET /api/stats/:name has stored a mock entry, 404 again after a load-csv.
C28_AnalysisByHistory ==
    /\ [][AnalysisStep =>
            /\ statsDB' = statsDB
            /\ tGet'.code = IF StatsKey(tGet'.name) \in DOMAIN statsDB.db
                            THEN 200 ELSE 404]_vars
    /\ [](\A k \in DOMAIN statsDB.db : k \notin SampleNames => statsDB.db[k].source = "mock")

C28_Witness ==
    /\ tGet.pc = "done" /\ tGet.route = "analysis" /\ tGet.name = "eevee"
    /\ tGet.code = 200 /\ tGet.body.source = "mock"
    /\ tLoad.pc = "done"

\* validateImageUrls has returned
Validated == vPc \in {"returned", "answered"}
\* the HEAD request answered 2xx within its timeout
HeadOk(head) == head.kind = "ok" /\ head.latency <= IMAGE_TIMEOUT
RECURSIVE SumOfTimes(_)
\* the HEAD requests' durations, each ended by its timeout, added up
SumOfTimes(heads) ==
    IF heads = <<>> THEN 0
    ELSE (IF Head(heads).latency > IMAGE_TIMEOUT THEN IMAGE_TIMEOUT
          ELSE Head(heads).latency) + SumOfTimes(Tail(heads))

\* C29: validateImageUrls never throws; its result has exactly the keys of its
\* input, each "available" if that URL's HEAD request succeeded and
\* "unavailable" if it failed or timed out, and a failed check does not stop
\* the checks of the URLs after it.
C29_ValidateTotal ==
    /\ vPc # "thrown"
    /\ vPc = "checking" => Len(vHeads) < Len(vImages)
    /\ Validated =>
          /\ Len(vHeads) = Len(vImages)
          /\ DOMAIN vOut = {vImages[i] : i \in 1..Len(vImages)}
          /\ \A i \in 1..Len(vImages) :
                vOut[vImages[i]].status =
                    IF HeadOk(vHeads[i]) THEN "available" ELSE "unavailable"

C29_Witness ==
    /\ vPc = "returned" /\ Len(vImages) = 5
    /\ vOut["official_artwork"].status = "unavailable"
    /\ vHeads[2].latency > IMAGE_TIMEOUT
    /\ vOut["back_shiny"].status = "available"

\* C30: the images service checks the image URLs one after another, each with
\* its own 3000 ms timeout, so its answer takes the sum of the checks, at most
\* 5 x 3000 ms; the search service's images sub-call fails exactly when that
\* answer takes more than its 5000 ms timeout, which happens in executions where
\* every service is up and answers without error: images_api is "error" while
\* poke_api and stats_api are "success".
C30_SequentialValidationTimeout ==
    (SearchDone /\ vPc = "answered") =>
        /\ SumOfTimes(vHeads) <= Len(ImageKeys) * IMAGE_TIMEOUT
        /\ sCalls["images_api"].kind = "ok"
        /\ sResp.body.status["poke_api"] = "success"
        /\ sResp.body.status["stats_api"] = "success"
        /\ sResp.body.status["images_api"] = "error" <=>
              10 + SumOfTimes(vHeads) > SEARCH_TIMEOUT

C30_Witness ==
    /\ SearchDone /\ vPc = "answered"
    /\ \A i \in 1..Len(vHeads) : HeadOk(vHeads[i])
    /\ sResp.body.status["poke_api"] = "success"
    /\ sResp.body.status["stats_api"] = "success"
    /\ sResp.body.status["images_api"] = "error"
    /\ "image_error" \in DOMAIN sResp.body.data

\* C21: the search aggregation keeps nothing between calls: a search whose key
\* and backend responses equal those of an earlier search has the same merged
\* data and the same status map, whatever searches were handled in between.
C21_StatelessSearch ==
    (SearchDone /\ Aggregated) =>
        \A h \in hist :
            (h.tag = "first" /\ h.outcomes = Outcomes) =>
                /\ h.body.data = sResp.body.data
                /\ h.body.status = sResp.body.status

C21_Witness ==
    /\ SearchDone /\ Aggregated
    /\ \E h, l \in hist :
          /\ h.tag = "first" /\ h.outcomes = Outcomes
          /\ l.tag = "last" /\ "data" \in DOMAIN l.body
          /\ l.body.name # sResp.body.name
          /\ l.body.status # sResp.body.status

\* C22: when the poke call and the stats call both succeed, data.stats is the
\* stats service's payload, and when the images call succeeds data.image is the
\* images service's payload: the poke payload is spread into data first, so its
\* own field stats (or a field image, stats_error or image_error) never masks
\* what the stats or images backend contributed.
C22_BackendFieldsNotMasked ==
    (SearchDone /\ Aggregated) =>
        /\ Succeeded("stats_api") =>
              sResp.body.data["stats"] = Val("stats_api", "payload", sCalls["stats_api"].url)
        /\ Succeeded("images_api") =>
              sResp.body.data["image"] = Val("images_api", "payload", sCalls["images_api"].url)
        /\ ~Succeeded("stats_api") =>
              sResp.body.data["stats_error"].from = "stats_api"
        /\ ~Succeeded("images_api") =>
              sResp.body.data["image_error"].from = "images_api"

C22_Witness ==
    /\ SearchDone /\ Aggregated
    /\ \A b \in Backends : Succeeded(b)
    /\ "stats" \in PokeFields /\ "sprites" \in DOMAIN sResp.body.data
    /\ sResp.body.data["stats"].from = "stats_api"
    /\ sResp.body.data["image"].from = "images_api"
====
